---- MODULE Spec2Model ----
\* Verification model of the roc-pdf platform host (platform/src/lib.rs):
\* the document builder PdfDocument::new, the process-wide DOCUMENT slot,
\* the entry points main / rust_main and the effect roc_fx_save.
EXTENDS Integers, Sequences, FiniteSets, TLC

\* ------------------------------------------------------------------ bounds
\* Number of OS threads that call the exported entry points.
NumThreads == 2

Threads == 1..NumThreads
NoThread == 0

\* Paths the application may hand to save.
Paths == {"/tmp/out.pdf", "/tmp/out2.pdf"}

\* ------------------------------------------------- lopdf object values
\* Object::Name, Object::Integer, Object::String, Object::Reference,
\* Object::Array, Object::Dictionary and Object::Stream as tagged records.
Name(s) == [t |-> "Name", v |-> s]
Integer(n) == [t |-> "Integer", v |-> n]
StringLiteral(s) == [t |-> "String", v |-> s]
Reference(id) == [t |-> "Reference", v |-> id]
Array(seq) == [t |-> "Array", v |-> seq]
Dictionary(d) == [t |-> "Dictionary", v |-> d]

\* dictionary! {} : a dictionary is a function from keys to objects.
EmptyDict == [k \in {} |-> Name("")]

\* Dictionary::set
DictSet(d, k, o) == (k :> o) @@ d

\* Dictionary::has / get
DictHas(d, k) == k \in DOMAIN d

\* Operation::new(operator, operands)
Operation(operator, operands) == [operator |-> operator, operands |-> operands]

\* A token of an encoded content stream: an operand object or an operator.
OperatorToken(op) == [t |-> "Operator", v |-> op]

\* Content::encode: each operation is written as its operands followed by
\* its operator (the reverse of the order in which Operation::new takes them).
RECURSIVE encode(_)
encode(operations) ==
    IF operations = <<>> THEN <<>>
    ELSE Head(operations).operands
         \o <<OperatorToken(Head(operations).operator)>>
         \o encode(Tail(operations))

\* Content::decode: operands accumulate until an operator closes the operation.
RECURSIVE decodeFrom(_, _)
decodeFrom(tokens, operands) ==
    IF tokens = <<>> THEN <<>>
    ELSE IF Head(tokens).t = "Operator"
         THEN <<Operation(Head(tokens).v, operands)>> \o decodeFrom(Tail(tokens), <<>>)
         ELSE decodeFrom(Tail(tokens), Append(operands, Head(tokens)))

decode(tokens) == decodeFrom(tokens, <<>>)

\* The bytes of a stream: the token sequence under `layers` applications of
\* zlib deflate (0: plain).
Bytes(tokens, layers) == [tokens |-> tokens, layers |-> layers]

\* Stream::new(dict, content): allows_compression is true.
Stream(dict, content) ==
    [t |-> "Stream", dict |-> dict, content |-> content, allows_compression |-> TRUE]

\* ------------------------------------------------------- lopdf Document
\* Document::with_version: no objects, empty trailer, max_id 0.
with_version(version) ==
    [version |-> version, max_id |-> 0,
     objects |-> [i \in {} |-> Name("")], trailer |-> EmptyDict]

\* Document::new_object_id: advances max_id and returns (max_id, 0); the
\* pair is <<document, id>>.
new_object_id(doc) ==
    <<[doc EXCEPT !.max_id = doc.max_id + 1], <<doc.max_id + 1, 0>>>>

\* Document::add_object: the object goes in under a fresh id; the pair is
\* <<document, id>>.
add_object(doc, object) ==
    LET r == new_object_id(doc)
    IN  <<[r[1] EXCEPT !.objects = (r[2] :> object) @@ @], r[2]>>

\* Fault variant of insert: the reserved id is never filled.
InsertNothing(doc, id, object) == doc

\* doc.objects.insert(pages_id, ..): the reserved id is filled.

insert(doc, id, object) ==
    [doc EXCEPT !.objects = (id :> object) @@ @]

\* ------------------------------------------------------ PdfDocument::new
\* The fixed operations of the page's content stream.
ContentOperations ==
    << Operation("BT", <<>>),
       Operation("Tf", <<Name("F1"), Integer(48)>>),
       Operation("Td", <<Integer(100), Integer(600)>>),
       Operation("Tj", <<StringLiteral("Hello World!")>>),
       Operation("ET", <<>>) >>

FontDict ==
    Dictionary(DictSet(DictSet(DictSet(EmptyDict,
        "Type", Name("Font")), "Subtype", Name("Type1")), "BaseFont", Name("Courier")))

ResourcesDict(font_id) ==
    Dictionary(DictSet(EmptyDict,
        "Font", Dictionary(DictSet(EmptyDict, "F1", Reference(font_id)))))

PageDict(pages_id, content_id) ==
    Dictionary(DictSet(DictSet(DictSet(EmptyDict,
        "Type", Name("Page")), "Parent", Reference(pages_id)),
        "Contents", Reference(content_id)))

PagesDict(page_id, resources_id) ==
    Dictionary(DictSet(DictSet(DictSet(DictSet(DictSet(EmptyDict,
        "Type", Name("Pages")),
        "Kids", Array(<<Reference(page_id)>>)),
        "Count", Integer(1)),
        "Resources", Reference(resources_id)),
        "MediaBox", Array(<<Integer(0), Integer(0), Integer(595), Integer(842)>>)))

CatalogDict(pages_id) ==
    Dictionary(DictSet(DictSet(EmptyDict,
        "Type", Name("Catalog")), "Pages", Reference(pages_id)))

\* PdfDocument::new: the page-tree root's id is reserved first, the font,
\* resources, content stream and page are added, the reserved id is filled,
\* the catalog is added and the trailer's Root is set.
PdfDocument_new ==
    LET d0 == with_version("1.5")
        r1 == new_object_id(d0)
        pages_id == r1[2]
        r2 == add_object(r1[1], FontDict)
        font_id == r2[2]
        r3 == add_object(r2[1], ResourcesDict(font_id))
        resources_id == r3[2]
        r4 == add_object(r3[1], Stream(EmptyDict, Bytes(encode(ContentOperations), 0)))
        content_id == r4[2]
        r5 == add_object(r4[1], PageDict(pages_id, content_id))
        page_id == r5[2]
        d6 == insert(r5[1], pages_id, PagesDict(page_id, resources_id))
        r7 == add_object(d6, CatalogDict(pages_id))
        catalog_id == r7[2]
        d8 == [r7[1] EXCEPT !.trailer = DictSet(@, "Root", Reference(catalog_id))]
    IN  [doc |-> d8, pages_id |-> pages_id]

\* ------------------------------------------- lopdf compression and save
\* Fault variant of StreamCompress: a stream that has a Filter is deflated
\* again.
StreamCompressAgain(stream, shrinks) ==
    IF shrinks
    THEN [stream EXCEPT !.dict = DictSet(@, "Filter", Name("FlateDecode")),
                        !.content = Bytes(@.tokens, @.layers + 1)]
    ELSE stream

\* Stream::compress: a stream that has no Filter yet is deflated, and the
\* deflated bytes replace the content (with Filter = FlateDecode) only when
\* they are shorter; `shrinks` is that comparison's outcome for the stream.
StreamCompress(stream, shrinks) ==
    IF ~DictHas(stream.dict, "Filter") /\ shrinks
    THEN [stream EXCEPT !.dict = DictSet(@, "Filter", Name("FlateDecode")),
                        !.content = Bytes(@.tokens, @.layers + 1)]
    ELSE stream

\* Fault variant of compress: the pass is skipped.
compressNothing(doc, shrinks) == doc

\* Document::compress: every stream object that allows compression.
compress(doc, shrinks) ==
    [doc EXCEPT !.objects =
        [id \in DOMAIN doc.objects |->
            IF doc.objects[id].t = "Stream" /\ doc.objects[id].allows_compression
            THEN StreamCompress(doc.objects[id], shrinks)
            ELSE doc.objects[id]]]

\* Stream::decompressed_content followed by Content::decode: one inflate
\* when Filter is FlateDecode; bytes that are not plain afterwards do not
\* parse as operations.
DecodedOperations(stream) ==
    LET layers == IF DictHas(stream.dict, "Filter")
                  THEN stream.content.layers - 1
                  ELSE stream.content.layers
    IN  IF layers = 0 THEN decode(stream.content.tokens) ELSE <<>>

\* Document::save writes the trailer after setting its Size to max_id + 1.
write_trailer(doc) ==
    [doc EXCEPT !.trailer = DictSet(@, "Size", Integer(doc.max_id + 1))]

\* The bytes Document::save puts in the file: header, every object, the
\* cross-reference table and the trailer.
FileOf(doc) ==
    [header |-> doc.version, objects |-> doc.objects,
     xref |-> DOMAIN doc.objects, trailer |-> doc.trailer]

NoFile == [header |-> "absent"]
PartialFile == [header |-> "partial"]

\* ---------------------------------------------------------------- state
VARIABLES
    DOCUMENT,     \* the Option<PdfDocument> inside the static Mutex<RefCell<..>>
    holder,       \* the thread holding DOCUMENT's mutex, or NoThread
    poisoned,     \* the mutex's poison flag
    aborted,      \* the process has aborted
    fs,           \* the file at each path
    zlibShrinks,  \* whether deflate makes the content stream short enough to keep
                  \* (fixed for a run: zlib's output is not computed here)
    hadPass,      \* history: a compression pass has run on the stored document
    pc,           \* each thread's position
    path,         \* the path argument of each thread's roc_fx_save, until moved into doc.save
    outcome,      \* what doc.save did in each thread's running roc_fx_save
    ret,          \* the RocResult each thread's roc_fx_save returns
    attempts      \* the number of doc.save calls of each thread's running roc_fx_save

vars == <<DOCUMENT, holder, poisoned, aborted, fs, zlibShrinks, hadPass,
          pc, path, outcome, ret, attempts>>

shared == <<DOCUMENT, holder, poisoned, aborted, fs, zlibShrinks, hadPass>>
callVars == <<path, outcome, ret, attempts>>

None == [some |-> FALSE]
Some(pdf) == [some |-> TRUE, pdf |-> pdf]

\* The values of a RocResult<(), RocStr> of roc_fx_save.
Ok == "ok"
\* Fault variant of DocumentNotFound: the other message.
WrongMessage == "ERROR SAVING DOCUMENT"
DocumentNotFound == "DOCUMENT NOT FOUND"
SaveFailed == "ERROR SAVING DOCUMENT"

\* What Document::save can do: write the whole file; fail in File::create;
\* fail after the file was created, before or after the trailer was set.
SaveOutcomes == {"ok", "create_err", "write_err", "flush_err"}

\* static DOCUMENT = Mutex::new(RefCell::new(None)); no thread has started.
Init ==
    /\ DOCUMENT = None
    /\ holder = NoThread
    /\ poisoned = FALSE
    /\ aborted = FALSE
    /\ fs = [p \in Paths |-> NoFile]
    /\ zlibShrinks \in BOOLEAN
    /\ hadPass = FALSE
    /\ pc = [t \in Threads |-> "start"]
    /\ path = [t \in Threads |-> "none"]
    /\ outcome = [t \in Threads |-> "none"]
    /\ ret = [t \in Threads |-> "none"]
    /\ attempts = [t \in Threads |-> 0]

\* ------------------------------------------------------------- the mutex
\* Fault variant of CanLock: lock() succeeds whoever holds the mutex.
LockAnyway(t) == TRUE

\* Mutex::lock blocks until no thread holds the mutex.
CanLock(t) == holder = NoThread

\* Fault variant of GuardDropped: the guard is forgotten, not dropped.
GuardLeaked(t) == t

\* Dropping the MutexGuard leaves the mutex with no holder.
GuardDropped(t) == NoThread

\* ---------------------------------------------------------- entry points
\* A thread enters the exported main.
CallMain(t) ==
    /\ ~aborted /\ pc[t] = "start"
    /\ pc' = [pc EXCEPT ![t] = "main_lock"]
    /\ UNCHANGED <<shared, callVars>>

\* A thread enters the exported rust_main: init(), roc_main and
\* call_the_closure start the application closure.
CallRustMain(t) ==
    /\ ~aborted /\ pc[t] = "start"
    /\ pc' = [pc EXCEPT ![t] = "app"]
    /\ UNCHANGED <<shared, callVars>>

\* main: DOCUMENT.lock().unwrap() on a mutex that is not poisoned.
MainLock(t) ==
    /\ ~aborted /\ pc[t] = "main_lock"
    /\ CanLock(t) /\ ~poisoned
    /\ holder' = t
    /\ pc' = [pc EXCEPT ![t] = "main_match"]
    /\ UNCHANGED <<DOCUMENT, poisoned, aborted, fs, zlibShrinks, hadPass, callVars>>

\* main, the None arm: the slot takes a new document, the guard is dropped
\* at the end of the block, and init() and rust_main() start the closure.
MainInitialize(t) ==
    /\ ~aborted /\ pc[t] = "main_match" /\ ~DOCUMENT.some
    /\ DOCUMENT' = Some(PdfDocument_new)
    /\ holder' = GuardDropped(t)
    /\ pc' = [pc EXCEPT ![t] = "app"]
    /\ UNCHANGED <<poisoned, aborted, fs, zlibShrinks, hadPass, callVars>>

\* Fault variant of MainPanic: the Some arm replaces the document and goes
\* on to the closure.
MainOverwrite(t) ==
    /\ ~aborted /\ pc[t] = "main_match" /\ DOCUMENT.some
    /\ DOCUMENT' = Some(PdfDocument_new)
    /\ holder' = NoThread
    /\ pc' = [pc EXCEPT ![t] = "app"]
    /\ UNCHANGED <<poisoned, aborted, fs, zlibShrinks, hadPass, callVars>>

\* main, the Some arm: dbg!(pdf) and panic!; the new document never reaches
\* the slot and the closure is not started. main is extern "C": the panic
\* aborts the process, at once (panic = abort) or when the unwinding, which
\* drops the guard and poisons the mutex, reaches main's boundary.
MainPanic(t) ==
    /\ ~aborted /\ pc[t] = "main_match" /\ DOCUMENT.some
    /\ pc' = [pc EXCEPT ![t] = "panic"]
    /\ \/ /\ aborted' = TRUE
          /\ UNCHANGED <<holder, poisoned>>
       \/ /\ poisoned' = TRUE
          /\ holder' = GuardDropped(t)
          /\ UNCHANGED aborted
    /\ UNCHANGED <<DOCUMENT, fs, zlibShrinks, hadPass, callVars>>

\* lock() on a poisoned mutex returns Err and unwrap() panics; the guard
\* inside the error is dropped by the unwinding.
LockPoisoned(t) ==
    /\ ~aborted /\ pc[t] \in {"main_lock", "save_lock"}
    /\ CanLock(t) /\ poisoned
    /\ pc' = [pc EXCEPT ![t] = "poison_panic"]
    /\ UNCHANGED <<shared, callVars>>

\* The unwinding of a panic reaches the boundary of an extern "C" function.
AbortOnUnwind(t) ==
    /\ ~aborted /\ pc[t] \in {"panic", "poison_panic"}
    /\ aborted' = TRUE
    /\ UNCHANGED <<DOCUMENT, holder, poisoned, fs, zlibShrinks, hadPass, pc, callVars>>

\* ------------------------------------------------------- the application
\* The closure calls the effect save with a path.
AppSave(t, p) ==
    /\ ~aborted /\ pc[t] = "app"
    /\ pc' = [pc EXCEPT ![t] = "save_lock"]
    /\ path' = [path EXCEPT ![t] = p]
    /\ UNCHANGED <<shared, outcome, ret, attempts>>

\* The closure returns its exit code (the exit of the process that follows
\* main's return is left out: the other threads run on).
AppReturn(t) ==
    /\ ~aborted /\ pc[t] = "app"
    /\ pc' = [pc EXCEPT ![t] = "done"]
    /\ UNCHANGED <<shared, callVars>>

\* ----------------------------------------------------------- roc_fx_save
\* DOCUMENT.lock().unwrap() on a mutex that is not poisoned.
SaveLock(t) ==
    /\ ~aborted /\ pc[t] = "save_lock"
    /\ CanLock(t) /\ ~poisoned
    /\ holder' = t
    /\ pc' = [pc EXCEPT ![t] = "save_match"]
    /\ UNCHANGED <<DOCUMENT, poisoned, aborted, fs, zlibShrinks, hadPass, callVars>>

\* The None arm: the error is returned and the guard dropped.
SaveNotFound(t) ==
    /\ ~aborted /\ pc[t] = "save_match" /\ ~DOCUMENT.some
    /\ ret' = [ret EXCEPT ![t] = DocumentNotFound]
    /\ holder' = GuardDropped(t)
    /\ path' = [path EXCEPT ![t] = "none"]
    /\ pc' = [pc EXCEPT ![t] = "save_ret"]
    /\ UNCHANGED <<DOCUMENT, poisoned, aborted, fs, zlibShrinks, hadPass,
                   outcome, attempts>>

\* The Some arm, pdf.doc.compress().
SaveCompress(t) ==
    /\ ~aborted /\ pc[t] = "save_match" /\ DOCUMENT.some
    /\ DOCUMENT' = Some([DOCUMENT.pdf EXCEPT !.doc = compress(@, zlibShrinks)])
    /\ hadPass' = TRUE
    /\ pc' = [pc EXCEPT ![t] = "save_write"]
    /\ UNCHANGED <<holder, poisoned, aborted, fs, zlibShrinks, callVars>>

\* The document after pdf.doc.save(path) took outcome o.
DocAfterSave(doc, o) ==
    IF o \in {"ok", "flush_err"} THEN write_trailer(doc) ELSE doc

\* The file at the path after pdf.doc.save(path) took outcome o.
FileAfterSave(old, doc, o) ==
    IF o = "ok" THEN FileOf(write_trailer(doc))
    ELSE IF o = "create_err" THEN old
    ELSE PartialFile

\* Fault variant of StoredAfterSave: the document is taken out of the slot.
TakenAfterSave(pdf, o) == None

\* get_mut() hands out the stored document in place: the slot keeps it.
StoredAfterSave(pdf, o) == Some([pdf EXCEPT !.doc = DocAfterSave(@, o)])

\* Fault variant of SaveResult: the error of doc.save is swallowed.
AlwaysOk(o) == Ok

\* match pdf.doc.save(..) { Ok(..) => ok(()), Err(..) => err("ERROR SAVING DOCUMENT") }
SaveResult(o) == IF o = "ok" THEN Ok ELSE SaveFailed

\* The Some arm, pdf.doc.save(path) and the result; the guard is dropped.
SaveWrite(t) ==
    /\ ~aborted /\ pc[t] = "save_write"
    /\ \E o \in SaveOutcomes :
        /\ outcome' = [outcome EXCEPT ![t] = o]
        /\ DOCUMENT' = StoredAfterSave(DOCUMENT.pdf, o)
        /\ fs' = [fs EXCEPT ![path[t]] = FileAfterSave(@, DOCUMENT.pdf.doc, o)]
        /\ ret' = [ret EXCEPT ![t] = SaveResult(o)]
    /\ attempts' = [attempts EXCEPT ![t] = @ + 1]
    /\ holder' = GuardDropped(t)
    /\ path' = [path EXCEPT ![t] = "none"]
    /\ pc' = [pc EXCEPT ![t] = "save_ret"]
    /\ UNCHANGED <<poisoned, aborted, zlibShrinks, hadPass>>

\* roc_fx_save returns its result to the closure.
SaveReturn(t) ==
    /\ ~aborted /\ pc[t] = "save_ret"
    /\ pc' = [pc EXCEPT ![t] = "app"]
    /\ outcome' = [outcome EXCEPT ![t] = "none"]
    /\ ret' = [ret EXCEPT ![t] = "none"]
    /\ attempts' = [attempts EXCEPT ![t] = 0]
    /\ UNCHANGED <<shared, path>>

\* --------------------------------------------------------- specification
Next ==
    \E t \in Threads :
        \/ CallMain(t)
        \/ CallRustMain(t)
        \/ MainLock(t)
        \/ MainInitialize(t)
        \/ MainPanic(t)
        \/ LockPoisoned(t)
        \/ AbortOnUnwind(t)
        \/ \E p \in Paths : AppSave(t, p)
        \/ AppReturn(t)
        \/ SaveLock(t)
        \/ SaveNotFound(t)
        \/ SaveCompress(t)
        \/ SaveWrite(t)
        \/ SaveReturn(t)

Spec == Init /\ [][Next]_vars

\* Program progress is fair: the code between lock() and the guard's drop
\* and the unwinding of a panic run on, and a thread waiting for the mutex
\* gets it when it is free again and again. What the callers do (entering,
\* calling save, returning) is not constrained.
Fairness ==
    /\ WF_vars(\E t \in Threads :
                  \/ MainInitialize(t) \/ MainPanic(t) \/ AbortOnUnwind(t)
                  \/ SaveNotFound(t) \/ SaveCompress(t) \/ SaveWrite(t))
    /\ \A t \in Threads : SF_vars(MainLock(t) \/ SaveLock(t) \/ LockPoisoned(t))

FairSpec == Spec /\ Fairness

\* ------------------------------------------------------ shared notions
\* Positions at which a thread is between lock() and the guard's drop.
Critical == {"main_match", "save_match", "save_write"}

\* A second initialize has panicked.
DoubleInitialize == \E t \in Threads : pc[t] = "panic"

StoredDoc == DOCUMENT.pdf.doc

IsFullFile(f) == f.header \notin {"absent", "partial"}

\* The value of a dictionary object's Type entry.
TypeOf(objects, id) ==
    IF /\ id \in DOMAIN objects
       /\ objects[id].t = "Dictionary"
       /\ DictHas(objects[id].v, "Type")
    THEN objects[id].v["Type"].v
    ELSE "none"

\* Every reference held in an object, in nested arrays and dictionaries too.
RECURSIVE Refs(_)
Refs(o) ==
    IF o.t = "Reference" THEN {o.v}
    ELSE IF o.t = "Array" THEN UNION {Refs(o.v[i]) : i \in DOMAIN o.v}
    ELSE IF o.t = "Dictionary" THEN UNION {Refs(o.v[k]) : k \in DOMAIN o.v}
    ELSE IF o.t = "Stream" THEN UNION {Refs(o.dict[k]) : k \in DOMAIN o.dict}
    ELSE {}

\* A reference-valued entry `key` of dictionary `d` that points at an object
\* of type `type`.
PointsAt(objects, d, key, type) ==
    /\ DictHas(d, key)
    /\ d[key].t = "Reference"
    /\ TypeOf(objects, d[key].v) = type

WellFormed(doc) ==
    LET objects == doc.objects
        ids == DOMAIN objects
        catalogs == {id \in ids : TypeOf(objects, id) = "Catalog"}
        roots == {id \in ids : TypeOf(objects, id) = "Pages"}
        pages == {id \in ids : TypeOf(objects, id) = "Page"}
    IN  /\ \A id \in ids : Refs(objects[id]) \subseteq ids
        /\ Refs(Dictionary(doc.trailer)) \subseteq ids
        /\ PointsAt(objects, doc.trailer, "Root", "Catalog")
        /\ Cardinality(catalogs) = 1
        /\ \A c \in catalogs : PointsAt(objects, objects[c].v, "Pages", "Pages")
        /\ Cardinality(roots) = 1
        /\ \A r \in roots :
            LET d == objects[r].v
            IN  /\ d["Kids"].t = "Array"
                /\ \A i \in DOMAIN d["Kids"].v :
                     /\ d["Kids"].v[i].t = "Reference"
                     /\ TypeOf(objects, d["Kids"].v[i].v) = "Page"
                /\ d["Count"].v = Len(d["Kids"].v)
                /\ d["Count"].v = 1
                /\ DictHas(d, "Resources")
                /\ d["Resources"].v \in ids
                /\ LET res == objects[d["Resources"].v]
                   IN  /\ res.t = "Dictionary"
                       /\ DictHas(res.v, "Font")
                       /\ PointsAt(objects, res.v["Font"].v, "F1", "Font")
        /\ \A q \in pages :
            /\ PointsAt(objects, objects[q].v, "Parent", "Pages")
            /\ DictHas(objects[q].v, "Contents")
            /\ objects[q].v["Contents"].v \in ids
            /\ objects[objects[q].v["Contents"].v].t = "Stream"

\* ------------------------------------------------------------- claims
\* C8: in the built document and after any number of saves, every reference
\* in a dictionary or the trailer resolves to an object of the table, of the
\* kind it is meant to point at (the reserved page-tree root included); there
\* is exactly one catalog, and Count = Len(Kids) = 1.
C8_ReferencesResolve ==
    /\ WellFormed(PdfDocument_new.doc)
    /\ DOCUMENT.some => WellFormed(StoredDoc)
    /\ DOCUMENT.some => PdfDocument_new.pages_id \in DOMAIN StoredDoc.objects

\* C8 witness: a stored document that two saves have gone over.
C8_Witness ==
    /\ DOCUMENT.some /\ hadPass
    /\ \A p \in Paths : IsFullFile(fs[p])

\* C1: while no initialize has completed (the slot is Empty), every save
\* returns "DOCUMENT NOT FOUND", no compression pass runs, no write is
\* attempted and no file is touched, and the slot stays Empty: only main's
\* None arm fills it.
C1_SaveBeforeInitialize ==
    /\ [](~DOCUMENT.some =>
            /\ \A p \in Paths : fs[p] = NoFile
            /\ ~hadPass
            /\ \A t \in Threads :
                 /\ pc[t] # "save_write"
                 /\ pc[t] = "save_ret" =>
                      /\ ret[t] = "DOCUMENT NOT FOUND"
                      /\ attempts[t] = 0
                      /\ outcome[t] = "none")
    /\ [][~DOCUMENT.some /\ DOCUMENT'.some
            => \E t \in Threads : pc[t] = "main_match" /\ pc'[t] = "app"]_vars

\* C1 witness: a save has returned while the slot is Empty.
C1_Witness ==
    /\ ~DOCUMENT.some
    /\ \E t \in Threads : pc[t] = "save_ret" /\ ret[t] = "DOCUMENT NOT FOUND"

\* C4: at most one thread at a time is between lock() and the guard's drop,
\* that thread is the mutex's holder, and every step that reads the slot,
\* replaces it, compresses the document or writes a file is taken by the
\* holder from inside its critical section.
C4_MutualExclusion ==
    /\ [](/\ Cardinality({t \in Threads : pc[t] \in Critical}) <= 1
          /\ \A t \in Threads : pc[t] \in Critical => holder = t)
    /\ [][(DOCUMENT' # DOCUMENT \/ fs' # fs \/ hadPass' # hadPass \/ ret' # ret)
            => \/ /\ holder \in Threads
                  /\ pc[holder] \in Critical
                  /\ pc'[holder] # pc[holder]
                  /\ \A u \in Threads \ {holder} : pc'[u] = pc[u]
               \/ \E t \in Threads : pc[t] = "save_ret" /\ pc'[t] = "app"]_vars

\* C4 witness: one thread is writing the file while another waits for the
\* mutex.
C4_Witness ==
    \E t, u \in Threads :
        /\ t # u
        /\ pc[t] = "save_write" /\ holder = t
        /\ pc[u] \in {"save_lock", "main_lock"}

\* C5: once the slot is Present it stays Present, whatever the saves do and
\* however they end, and no save is the origin of the abort: a panic on a
\* poisoned mutex and the abort itself happen only after main's Some arm
\* has panicked.
C5_PresentPersists ==
    /\ [][DOCUMENT.some => DOCUMENT'.some]_vars
    /\ []((aborted \/ poisoned \/ \E t \in Threads : pc[t] = "poison_panic")
            => DoubleInitialize)
    /\ [][\A t \in Threads :
            (pc[t] \in {"save_match", "save_write", "save_ret"} /\ pc'[t] # pc[t])
                => pc'[t] \notin {"panic", "poison_panic"} /\ aborted' = aborted]_vars

\* C5 witness: after an initialize, one save has succeeded and another has
\* failed, and the slot is Present.
C5_Witness ==
    /\ DOCUMENT.some /\ ~aborted
    /\ \E t, u \in Threads :
        /\ pc[t] = "save_ret" /\ ret[t] = "ok"
        /\ pc[u] = "save_ret" /\ ret[u] = "ERROR SAVING DOCUMENT"

\* C6: on a Present slot save calls doc.save exactly once and returns success
\* exactly when that call succeeded, "ERROR SAVING DOCUMENT" otherwise; the
\* failure is a returned value (no panic, no abort, no second attempt), and
\* save returns no other error string than the two.
C6_SaveResults ==
    /\ [](\A t \in Threads :
            /\ attempts[t] <= 1
            /\ pc[t] = "save_ret" =>
                 /\ ret[t] \in {"ok", "DOCUMENT NOT FOUND", "ERROR SAVING DOCUMENT"}
                 /\ ret[t] = "DOCUMENT NOT FOUND" <=> attempts[t] = 0
                 /\ ret[t] = "ok" <=> outcome[t] = "ok"
                 /\ outcome[t] \in {"create_err", "write_err", "flush_err"}
                      <=> ret[t] = "ERROR SAVING DOCUMENT")
    /\ [][\A t \in Threads :
            /\ (pc[t] = "save_match" /\ DOCUMENT.some /\ pc'[t] # pc[t])
                 => pc'[t] = "save_write"
            /\ (pc[t] = "save_write" /\ pc'[t] # pc[t])
                 => /\ pc'[t] = "save_ret"
                    /\ attempts'[t] = 1
                    /\ aborted' = aborted /\ poisoned' = poisoned]_vars

\* C6 witness: a save on a Present slot has returned the error value and
\* the process runs on.
C6_Witness ==
    /\ DOCUMENT.some /\ ~aborted /\ ~poisoned
    /\ \E t \in Threads :
        /\ pc[t] = "save_ret" /\ ret[t] = "ERROR SAVING DOCUMENT"
        /\ outcome[t] = "create_err" /\ attempts[t] = 1

\* C2: an initialize that finds the slot Present panics and the process
\* aborts. The stored document is not replaced; from the panic on the slot
\* and the files never change, no thread enters a critical section, no save
\* returns a result, the panicking thread never starts the closure; the
\* abort follows, and nothing runs after it.
C2_DoubleInitializeAborts ==
    /\ [][\A t \in Threads :
            (pc[t] = "main_match" /\ DOCUMENT.some /\ pc'[t] # pc[t])
                => pc'[t] = "panic" /\ DOCUMENT' = DOCUMENT]_vars
    /\ [][DoubleInitialize =>
            /\ DOCUMENT' = DOCUMENT /\ fs' = fs /\ hadPass' = hadPass
            /\ \A t \in Threads :
                 /\ pc[t] = "panic" => pc'[t] = "panic"
                 /\ pc'[t] \in Critical => pc[t] = pc'[t]
                 /\ pc'[t] = "save_ret" => pc[t] = "save_ret" /\ ret'[t] = ret[t]]_vars
    /\ [](DoubleInitialize => \A t \in Threads : pc[t] \notin {"save_match", "save_write"})
    /\ [][~aborted]_vars
    /\ DoubleInitialize ~> aborted

\* C2 witness: a second initialize has run and the process has aborted,
\* with the first document still in the slot.
C2_Witness ==
    /\ aborted /\ DOCUMENT.some
    /\ \E t, u \in Threads :
        /\ pc[t] = "panic"
        /\ pc[u] \in {"app", "save_lock", "save_ret", "done"}

\* C3: on every path that starts the application closure (main and
\* rust_main) the slot is Present before the closure's first save, so no
\* save called by the closure returns "DOCUMENT NOT FOUND".
C3_InitializedBeforeApp ==
    \A t \in Threads :
        /\ pc[t] = "save_match" => DOCUMENT.some
        /\ pc[t] = "save_ret" => ret[t] # "DOCUMENT NOT FOUND"

\* The content streams of a table of objects.
Streams(objects) == {id \in DOMAIN objects : objects[id].t = "Stream"}

\* The stored streams are in the form a compression pass leaves them in.
CompressedForm(doc) ==
    zlibShrinks =>
        \A id \in Streams(doc.objects) :
            /\ DictHas(doc.objects[id].dict, "Filter")
            /\ doc.objects[id].content.layers = 1

\* C7: after the first compression pass every later pass changes nothing,
\* and all files written by successful saves hold the same objects, whose
\* content stream decodes to the fixed operations, whatever failed between.
C7_SaveIdempotent ==
    /\ [](hadPass => compress(StoredDoc, zlibShrinks) = StoredDoc)
    /\ [][(hadPass /\ \E t \in Threads : pc[t] = "save_match" /\ pc'[t] = "save_write")
            => DOCUMENT' = DOCUMENT]_vars
    /\ [](\A p, q \in Paths :
            (IsFullFile(fs[p]) /\ IsFullFile(fs[q])) =>
                /\ fs[p].objects = fs[q].objects
                /\ Streams(fs[p].objects) # {}
                /\ \A id \in Streams(fs[p].objects) :
                     DecodedOperations(fs[p].objects[id]) = ContentOperations)

\* C7 witness: two successful saves to two paths around a failed one, with
\* a compression that does change the stream.
C7_Witness ==
    /\ zlibShrinks
    /\ \A p \in Paths : IsFullFile(fs[p])
    /\ \E t, u \in Threads :
        /\ pc[t] = "save_ret" /\ ret[t] = "ok"
        /\ pc[u] = "save_ret" /\ ret[u] = "ERROR SAVING DOCUMENT"

\* Within a save on a Present slot the compression pass comes before the
\* write attempt, under one hold of the lock.
C9_CompressThenWrite ==
    /\ [](\A t \in Threads :
            pc[t] = "save_write" => holder = t /\ hadPass /\ CompressedForm(StoredDoc))
    /\ [][\A t \in Threads :
            (pc'[t] = "save_write" /\ pc[t] # "save_write")
                => pc[t] = "save_match" /\ holder = t /\ holder' = t]_vars

\* The compression has been applied also when the write then failed.
C9_AppliedOnFailure ==
    [](\A t \in Threads :
        (pc[t] = "save_ret" /\ ret[t] = "ERROR SAVING DOCUMENT")
            => hadPass /\ CompressedForm(StoredDoc))

\* A step is the compression pass of some thread's save.
CompressStep == \E t \in Threads : pc[t] = "save_match" /\ pc'[t] = "save_write"

\* C9 as stated: the stored document is mutated only by the compression
\* pass of save, which precedes the write attempt within the lock hold and
\* is applied even when the write fails; nothing else changes the document.
C9_OnlyCompressionMutates ==
    /\ C9_CompressThenWrite
    /\ C9_AppliedOnFailure
    /\ [][(DOCUMENT.some /\ DOCUMENT' # DOCUMENT) => CompressStep]_vars

\* C9 amended: the stored document's objects are mutated only by the
\* compression pass (before the write attempt, in the same lock hold, also
\* when the write fails); the only other change is made by doc.save, which
\* sets the trailer's Size unless it fails before writing the trailer.
C9_ObjectsOnlyByCompression ==
    /\ C9_CompressThenWrite
    /\ C9_AppliedOnFailure
    /\ [][(DOCUMENT.some /\ DOCUMENT' # DOCUMENT) =>
            \/ /\ CompressStep
               /\ StoredDoc'.trailer = StoredDoc.trailer
            \/ \E t \in Threads :
                /\ pc[t] = "save_write" /\ pc'[t] = "save_ret"
                /\ outcome'[t] \in {"ok", "flush_err"}
                /\ StoredDoc'.objects = StoredDoc.objects
                /\ StoredDoc'.max_id = StoredDoc.max_id
                /\ StoredDoc'.trailer =
                     ("Size" :> Integer(StoredDoc.max_id + 1)) @@ StoredDoc.trailer]_vars

\* C9 witness: a save whose write failed in File::create has left the
\* stream compressed.
C9_Witness ==
    /\ zlibShrinks /\ DOCUMENT.some
    /\ \E t \in Threads :
        /\ pc[t] = "save_ret" /\ outcome[t] = "create_err"
        /\ \A id \in Streams(StoredDoc.objects) :
             DictHas(StoredDoc.objects[id].dict, "Filter")
        /\ ~DictHas(StoredDoc.trailer, "Size")

====
